---- MODULE Spec2Model ----
(***************************************************************************)
(* Model of fatiando/potential/sphere.py (tf, gz, _dircos) and of the      *)
(* event handlers of fatiando/ui/picker.py (draw_polygon, points,          *)
(* draw_layers).                                                           *)
(*                                                                         *)
(* Numbers.  numpy's floating-point values are modelled as exact numbers   *)
(* of the form (n/d) * 10^e * pi^p, kept in a canonical form, together     *)
(* with the three non-finite values nan, +inf and -inf.  Rounding is not   *)
(* modelled: every finite result below is the real number the code's       *)
(* formula denotes.  Square roots are taken only of perfect squares (the   *)
(* inputs are drawn so that every point-to-centre distance is rational)    *)
(* and cos/sin only of multiples of 90 degrees.                            *)
(***************************************************************************)
EXTENDS Integers, Sequences, FiniteSets, TLC

VARIABLES
    fn,        \* which function was called: "tf" or "gz"
    xp, yp, zp,\* the observation arrays (1-D, sequences of numbers)
    spheres,   \* the list of spheres (entries may be None)
    inc, dec,  \* regional field direction (tf only)
    pc,        \* position in the call: "check", "loop", "done", "raised"
    i,         \* index of the next list entry the for loop visits
    acc,       \* the accumulator (local tf / res)
    f,         \* (fx, fy, fz)
    m,         \* (mx, my, mz) of the last sphere that contributed
    out,       \* the returned array
    err,       \* the exception raised, "" when none
    px, py,    \* draw_polygon, points: x, y
    plotx, ploty,  \* draw_polygon, points: plotx, ploty
    picking,   \* the pickers: picking[0]
    tmpline,   \* draw_polygon, draw_layers: data of the guide line
    title,     \* the pickers: axes title
    xy2ne,     \* draw_polygon: argument xy2ne
    shown,     \* the pickers: "open" while pyplot.show() runs
    verts,     \* draw_polygon, points: the returned array
    perr,      \* the pickers: exception raised by the function
    cberr,     \* the pickers: exception raised inside the last callback
    tool,      \* which picker was called
    area,      \* draw_layers: argument area = [vmin, vmax, zmin, zmax]
    depths,    \* draw_layers: depths
    values,    \* draw_layers: values (also returned)
    plotv, plotz,  \* draw_layers: plotv, plotz
    tmpz,      \* draw_layers: tmpz[0]
    thickness  \* draw_layers: the returned thickness

sphereVars == <<fn, xp, yp, zp, spheres, inc, dec, pc, i, acc, f, m, out, err>>
layerVars == <<tool, area, depths, values, plotv, plotz, tmpz, thickness>>
pickerVars == <<px, py, plotx, ploty, picking, tmpline, title, xy2ne, shown,
                verts, perr, cberr, layerVars>>
vars == <<sphereVars, pickerVars>>

----------------------------------------------------------------------------
(* Bounds of the model *)
MaxPts == 3
MaxSpheres == 2
MaxClicks == 4

----------------------------------------------------------------------------
(* Exact numbers: [n, d, e, p] denotes (n/d) * 10^e * pi^p.                *)
(* Canonical form of a finite number: d > 0, gcd(n, d) = 1, d coprime to   *)
(* 10, n not a multiple of 10; zero is [0, 1, 0, 0].  Non-finite: d = 0    *)
(* and n = 0 (nan), 1 (+inf), -1 (-inf).                                   *)

Abs(k) == IF k < 0 THEN -k ELSE k
Sign(k) == IF k < 0 THEN -1 ELSE IF k > 0 THEN 1 ELSE 0
Min(a, b) == IF a < b THEN a ELSE b

RECURSIVE Gcd(_, _)
Gcd(a, b) == IF b = 0 THEN a ELSE Gcd(b, a % b)

RECURSIVE Pow10(_)
Pow10(k) == IF k = 0 THEN 1 ELSE 10 * Pow10(k - 1)

Zero == [n |-> 0, d |-> 1, e |-> 0, p |-> 0]
NaN == [n |-> 0, d |-> 0, e |-> 0, p |-> 0]
Inf(s) == [n |-> s, d |-> 0, e |-> 0, p |-> 0]

IsFinite(a) == a.d # 0
IsNaN(a) == a.d = 0 /\ a.n = 0
IsZero(a) == a.d # 0 /\ a.n = 0

\* n > 0, d > 0 coprime: move the factors 2 and 5 of d and the factors 10
\* of n into the exponent.
RECURSIVE Canon(_, _, _, _)
Canon(n, d, e, p) ==
    IF d % 2 = 0 THEN Canon(n * 5, d \div 2, e - 1, p)
    ELSE IF d % 5 = 0 THEN Canon(n * 2, d \div 5, e - 1, p)
    ELSE IF n % 10 = 0 THEN Canon(n \div 10, d, e + 1, p)
    ELSE [n |-> n, d |-> d, e |-> e, p |-> p]

Norm(n, d, e, p) ==
    IF d = 0 THEN Inf(Sign(n))
    ELSE IF n = 0 THEN Zero
    ELSE LET g == Gcd(Abs(n), Abs(d))
             c == Canon(Abs(n) \div g, Abs(d) \div g, e, p)
         IN  [c EXCEPT !.n = Sign(n) * Sign(d) * c.n]

Num(k) == Norm(k, 1, 0, 0)
pi == [n |-> 1, d |-> 1, e |-> 0, p |-> 1]

Neg(a) == [a EXCEPT !.n = -a.n]

\* a + b (IEEE: nan absorbs, inf - inf = nan)
Add(a, b) ==
    IF IsNaN(a) \/ IsNaN(b) THEN NaN
    ELSE IF ~IsFinite(a) /\ ~IsFinite(b) THEN (IF a.n = b.n THEN a ELSE NaN)
    ELSE IF ~IsFinite(a) THEN a
    ELSE IF ~IsFinite(b) THEN b
    ELSE IF IsZero(a) THEN b
    ELSE IF IsZero(b) THEN a
    ELSE LET lo == Min(a.e, b.e)
         IN  Norm(a.n * b.d * Pow10(a.e - lo) + b.n * a.d * Pow10(b.e - lo),
                  a.d * b.d, lo, a.p)

Sub(a, b) == Add(a, Neg(b))

\* a * b (IEEE: 0 * inf = nan)
Mul(a, b) ==
    IF IsNaN(a) \/ IsNaN(b) THEN NaN
    ELSE IF ~IsFinite(a) \/ ~IsFinite(b)
         THEN (IF IsZero(a) \/ IsZero(b) THEN NaN ELSE Inf(Sign(a.n) * Sign(b.n)))
    ELSE IF IsZero(a) \/ IsZero(b) THEN Zero
    ELSE LET g1 == Gcd(Abs(a.n), b.d)
             g2 == Gcd(Abs(b.n), a.d)
         IN  Norm((a.n \div g1) * (b.n \div g2), (a.d \div g2) * (b.d \div g1),
                  a.e + b.e, a.p + b.p)

\* a / b (numpy: 0/0 = nan, x/0 = +-inf, x/inf = 0; a warning, not an error)
Div(a, b) ==
    IF IsNaN(a) \/ IsNaN(b) THEN NaN
    ELSE IF ~IsFinite(b) THEN (IF IsFinite(a) THEN Zero ELSE NaN)
    ELSE IF ~IsFinite(a) THEN (IF IsZero(b) THEN a ELSE Inf(a.n * Sign(b.n)))
    ELSE IF IsZero(b) THEN (IF IsZero(a) THEN NaN ELSE Inf(Sign(a.n)))
    ELSE Mul(a, [n |-> Sign(b.n) * b.d, d |-> Abs(b.n), e |-> -b.e, p |-> -b.p])

\* (mutant) a division that returns 0 where the divisor is 0
DivGuarded(a, b) ==
    IF IsFinite(b) /\ IsZero(b) THEN Zero
    ELSE IF IsNaN(a) \/ IsNaN(b) THEN NaN
    ELSE IF ~IsFinite(b) THEN (IF IsFinite(a) THEN Zero ELSE NaN)
    ELSE IF ~IsFinite(a) THEN Inf(a.n * Sign(b.n))
    ELSE Mul(a, [n |-> Sign(b.n) * b.d, d |-> Abs(b.n), e |-> -b.e, p |-> -b.p])

\* the / of lines 137-139 and 182
Quot(a, b) == Div(a, b)

Isqrt(k) == CHOOSE r \in 0..k : r * r <= k /\ k < (r + 1) * (r + 1)
IsSquare(k) == k >= 0 /\ Isqrt(k) * Isqrt(k) = k

\* a has a rational square root
HasSqrt(a) == IsFinite(a) /\ a.p = 0 /\ a.e % 2 = 0 /\ IsSquare(a.n) /\ IsSquare(a.d)
Sqrt(a) == IF IsZero(a) THEN Zero
           ELSE [n |-> Isqrt(a.n), d |-> Isqrt(a.d), e |-> a.e \div 2, p |-> 0]

Sqr(a) == Mul(a, a)                       \* a**2
Cube(a) == Mul(Mul(a, a), a)              \* a**3
Pow15(a) == Mul(a, Sqrt(a))               \* a**(1.5)
Pow25(a) == Mul(Mul(a, a), Sqrt(a))       \* a**(2.5)

----------------------------------------------------------------------------
(* fatiando.constants, imported at sphere.py line 54 *)
G == [n |-> 6673, d |-> 1, e |-> -14, p |-> 0]       \* 0.00000000006673
SI2MGAL == [n |-> 1, d |-> 1, e |-> 5, p |-> 0]      \* 100000.0
CM == [n |-> 1, d |-> 1, e |-> -7, p |-> 0]          \* 10**(-7)
T2NT == [n |-> 1, d |-> 1, e |-> 9, p |-> 0]         \* 10**(9)

----------------------------------------------------------------------------
(* Spheres and arrays *)

None == [kind |-> "None"]
Sphere(x, y, z, radius, props) ==
    [kind |-> "Sphere", x |-> x, y |-> y, z |-> z, radius |-> radius,
     props |-> props]

IsNone(s) == s.kind = "None"
HasProp(s, key) == key \in DOMAIN s.props

\* a.shape of a 1-D array
Shape(a) == Len(a)

\* numpy broadcasting of two 1-D shapes; -1 when they cannot be broadcast
BShape(a, b) ==
    IF a = b THEN a
    ELSE IF a = -1 \/ b = -1 THEN -1
    ELSE IF a = 1 THEN b
    ELSE IF b = 1 THEN a
    ELSE -1

\* element k of a, broadcast
At(a, k) == IF Len(a) = 1 THEN a[1] ELSE a[k]

\* an array as a tuple of evaluated elements
Array(a) == a \o <<>>

\* elementwise binary operation with broadcasting
Map2(Op(_, _), a, b) ==
    Array([k \in 1..BShape(Len(a), Len(b)) |-> Op(At(a, k), At(b, k))])
\* array (op) scalar and scalar (op) array
MapS(Op(_, _), a, s) == Array([k \in 1..Len(a) |-> Op(a[k], s)])
SMap(Op(_, _), s, a) == Array([k \in 1..Len(a) |-> Op(s, a[k])])
Map1(Op(_), a) == Array([k \in 1..Len(a) |-> Op(a[k])])

\* (mutant) numpy.ones_like(a)
ones_like(a) == [k \in 1..Len(a) |-> Num(1)]

\* numpy.zeros_like(a)
zeros_like(a) == [k \in 1..Len(a) |-> Zero]

\* the arrays as numbers
AsNum(a) == Array([k \in 1..Len(a) |-> Num(a[k])])

----------------------------------------------------------------------------
(* _dircos *)

\* numpy.cos and numpy.sin of d2r*a, for a a multiple of 90 degrees
Cosd(a) == LET r == a % 360
           IN  IF r = 0 THEN Num(1) ELSE IF r = 180 THEN Num(-1) ELSE Zero
Sind(a) == LET r == a % 360
           IN  IF r = 90 THEN Num(1) ELSE IF r = 270 THEN Num(-1) ELSE Zero

dircos(incl, decl) ==
    << Mul(Cosd(incl), Cosd(decl)),
       Mul(Cosd(incl), Sind(decl)),
       Sind(incl) >>

----------------------------------------------------------------------------
(* tf and gz: the pieces of the loop body *)

\* the test of line 107 / 167: xp.shape != yp.shape != zp.shape, a chained
\* comparison: (xp.shape != yp.shape) and (yp.shape != zp.shape)
ShapeCheckRaises(xs, ys, zs) ==
    Shape(xs) # Shape(ys) /\ Shape(ys) # Shape(zs)

\* the property a sphere must carry to contribute
Required(fnn) == IF fnn = "tf" THEN "magnetization" ELSE "density"

\* negation of the `continue` test of line 114 / 171
Contributes(fnn, s) == ~(IsNone(s) \/ ~HasProp(s, Required(fnn)))

\* (mutant) break instead of continue: the loop ends at the first skipped entry
BreakAfterSkip(k, n) == n + 1

\* line 115 / 172: continue, the index the loop visits after skipping entry k
\* of a list of n entries
NextAfterSkip(k, n) == k + 1

\* lines 118-126: the unit vector of the magnetization
\* (mutant) each of the two keys overrides the regional value on its own
DirectionEither(s, incl, decl, fv) ==
    dircos(IF HasProp(s, "inclination") THEN s.props.inclination ELSE incl,
           IF HasProp(s, "declination") THEN s.props.declination ELSE decl)

Direction(s, incl, decl, fv) ==
    IF HasProp(s, "inclination") /\ HasProp(s, "declination")
    THEN dircos(s.props.inclination, s.props.declination)
    ELSE fv

\* lines 129-131 / 177-179
TranslateX(xs, s) == MapS(Sub, AsNum(xs), Num(s.x))
TranslateY(ys, s) == MapS(Sub, AsNum(ys), Num(s.y))
TranslateZ(zs, s) == MapS(Sub, AsNum(zs), Num(s.z))

\* (mutant) the exponent of tf used in gz
PowCopied(a) == Mul(Mul(a, a), Sqrt(a))

\* line 180: (...)**(1.5)
RCubed(a) == Pow15(a)

\* x**2 + y**2 + z**2
RSqr(x, y, z) == Map2(Add, Map2(Add, Map1(Sqr, x), Map1(Sqr, y)), Map1(Sqr, z))

\* the three arrays can be combined elementwise (numpy raises ValueError
\* "operands could not be broadcast together" otherwise)
CanBroadcast(xs, ys, zs) == BShape(BShape(Shape(xs), Shape(ys)), Shape(zs)) # -1

\* volume factor: v*4.*pi*(radius**3)/3.
TimesVolume(v, radius) ==
    Div(Mul(Mul(Mul(Num(v), Num(4)), pi), Cube(Num(radius))), Num(3))

\* lines 137-139: moment*(3*dotprod*c - r_sqr*mc)/r5 for one coordinate c
BComponent(moment, dotprod, c, r_sqr, mc, r5) ==
    Map2(Quot,
         SMap(Mul, moment,
              Map2(Sub, Map2(Mul, SMap(Mul, Num(3), dotprod), c),
                        MapS(Mul, r_sqr, mc))),
         r5)

\* line 140: fx*bx + fy*by + fz*bz
Project(fv, mv, bx, by, bz) ==
    Map2(Add, Map2(Add, SMap(Mul, fv[1], bx), SMap(Mul, fv[2], by)),
         SMap(Mul, fv[3], bz))

\* lines 129-139: (bx, by, bz) of a sphere magnetized along mv
TfField(xs, ys, zs, s, mv) ==
    LET x == TranslateX(xs, s)
        y == TranslateY(ys, s)
        z == TranslateZ(zs, s)
        dotprod == Map2(Add, Map2(Add, SMap(Mul, mv[1], x), SMap(Mul, mv[2], y)),
                        SMap(Mul, mv[3], z))
        r_sqr == RSqr(x, y, z)
        r5 == Map1(Pow25, r_sqr)
        moment == TimesVolume(s.props.magnetization, s.radius)
        bx == BComponent(moment, dotprod, x, r_sqr, mv[1], r5)
        by == BComponent(moment, dotprod, y, r_sqr, mv[2], r5)
        bz == BComponent(moment, dotprod, z, r_sqr, mv[3], r5)
    IN  <<bx, by, bz>>

\* lines 116-140: what one sphere adds to tf
TfContribution(xs, ys, zs, s, incl, decl, fv) ==
    LET mv == Direction(s, incl, decl, fv)
        b == TfField(xs, ys, zs, s, mv)
    IN  Project(fv, mv, b[1], b[2], b[3])

\* lines 173-182: what one sphere adds to res
GzContribution(xs, ys, zs, s) ==
    LET x == TranslateX(xs, s)
        y == TranslateY(ys, s)
        z == TranslateZ(zs, s)
        r_cb == Map1(RCubed, RSqr(x, y, z))
        mass == TimesVolume(s.props.density, s.radius)
    IN  Map2(Quot, SMap(Mul, mass, z), r_cb)

Contribution(fnn, xs, ys, zs, s, incl, decl, fv) ==
    IF fnn = "tf" THEN TfContribution(xs, ys, zs, s, incl, decl, fv)
    ELSE GzContribution(xs, ys, zs, s)

\* line 140 / 182: tf = tf + (...), res = res + ...
\* (mutant) tf = (...): the contribution replaces the sum
Overwritten(a, c) == c

Accumulated(a, c) == Map2(Add, a, c)

\* line 141 / 183: CM*T2NT*tf, G*SI2MGAL*res
Converted(fnn, a) ==
    SMap(Mul, IF fnn = "tf" THEN Mul(CM, T2NT) ELSE Mul(G, SI2MGAL), a)

\* the exceptions
ShapeError == "ValueError: Input arrays xp, yp, and zp must have same shape!"
BroadcastError == "ValueError: operands could not be broadcast together"

\* the loop of lines 113-140 / 170-182 from entry k on, as a function
RECURSIVE LoopFrom(_, _, _, _, _, _, _, _, _, _)
LoopFrom(fnn, xs, ys, zs, sph, incl, decl, fv, k, a) ==
    IF k > Len(sph) THEN [err |-> "", out |-> Converted(fnn, a)]
    ELSE IF ~Contributes(fnn, sph[k])
         THEN LoopFrom(fnn, xs, ys, zs, sph, incl, decl, fv,
                       NextAfterSkip(k, Len(sph)), a)
    ELSE IF ~CanBroadcast(xs, ys, zs)
         THEN [err |-> BroadcastError, out |-> <<>>]
    ELSE LoopFrom(fnn, xs, ys, zs, sph, incl, decl, fv, k + 1,
                  Accumulated(a, Contribution(fnn, xs, ys, zs, sph[k],
                                              incl, decl, fv)))

\* a whole call of tf (fnn = "tf") or gz (fnn = "gz"): what it raises or returns
Call(fnn, xs, ys, zs, sph, incl, decl) ==
    IF ShapeCheckRaises(xs, ys, zs) THEN [err |-> ShapeError, out |-> <<>>]
    ELSE LoopFrom(fnn, xs, ys, zs, sph, incl, decl, dircos(incl, decl), 1,
                  zeros_like(xs))

----------------------------------------------------------------------------
(* The inputs of a call *)

\* Spheres of the small family: centres on the z axis
SphereCatalogue ==
    { None,
      Sphere(0, 0, 0, 1, [density |-> 1]),
      Sphere(0, 0, 2, 2, [density |-> 3, magnetization |-> 1, declination |-> 90]),
      Sphere(0, 0, 0, 1, [magnetization |-> 2, inclination |-> 90, declination |-> 0]),
      Sphere(0, 0, 2, 1, [magnetization |-> 1, inclination |-> 90]),
      Sphere(0, 0, 0, 2, [magnetization |-> 1]) }

\* the sphere of the documented gravity scenario
BigSphere == Sphere(0, 0, 0, 1000, [density |-> 1000])

SeqsUpTo(S, n) == UNION { [1..k -> S] : k \in 0..n }

\* Observation points of the small family.  Family 1 lies on the z axis
\* (z = -1, 0, 1, 2, ...); family 2 alternates the axis with (2, 2, 1).
PointX(fam, k) == IF fam = 2 /\ k % 2 = 0 THEN 2 ELSE 0
PointY(fam, k) == IF fam = 2 /\ k % 2 = 0 THEN 2 ELSE 0
PointZ(fam, k) == IF fam = 2 THEN (IF k % 2 = 0 THEN 1 ELSE k - 1) ELSE k - 2

\* the array lengths tried: one point, and the two largest lengths
Lengths == {1, MaxPts - 1, MaxPts}

\* every point the arrays denote (after broadcasting) is at a rational
\* distance from every sphere centre
RationalDistances(xs, ys, zs, sph) ==
    \A k \in 1..BShape(BShape(Len(xs), Len(ys)), Len(zs)) :
        \A j \in 1..Len(sph) :
            IF IsNone(sph[j]) THEN TRUE
            ELSE HasSqrt(Num((At(xs, k) - sph[j].x) * (At(xs, k) - sph[j].x)
                           + (At(ys, k) - sph[j].y) * (At(ys, k) - sph[j].y)
                           + (At(zs, k) - sph[j].z) * (At(zs, k) - sph[j].z)))

AmbientDirs == { <<0, 0>>, <<0, 90>>, <<90, 0>> }

PickerIdle ==
    /\ px = <<>> /\ py = <<>> /\ plotx = <<>> /\ ploty = <<>>
    /\ picking = FALSE /\ tmpline = <<>> /\ title = "" /\ xy2ne = FALSE
    /\ shown = "no" /\ verts = <<>> /\ perr = "" /\ cberr = ""
    /\ tool = "none" /\ area = <<>> /\ depths = <<>> /\ values = <<>>
    /\ plotv = <<>> /\ plotz = <<>> /\ tmpz = 0 /\ thickness = <<>>

CallStart ==
    /\ pc = "check" /\ i = 0 /\ acc = <<>> /\ f = <<>> /\ m = <<>>
    /\ out = <<>> /\ err = ""

InitSmall ==
    /\ fn \in {"tf", "gz"}
    /\ \E fam \in {1, 2}, lx \in Lengths, ly \in Lengths, lz \in Lengths :
          /\ xp = [k \in 1..lx |-> PointX(fam, k)]
          /\ yp = [k \in 1..ly |-> PointY(fam, k)]
          /\ zp = [k \in 1..lz |-> PointZ(fam, k)]
    /\ spheres \in SeqsUpTo(SphereCatalogue, MaxSpheres)
    /\ RationalDistances(xp, yp, zp, spheres)
    /\ \E a \in AmbientDirs :
          /\ inc = a[1] /\ dec = a[2]
          /\ fn = "gz" => a = <<0, 0>>

InitScenario ==
    /\ fn = "gz"
    /\ xp = <<0>> /\ yp = <<0>>
    /\ zp \in { <<-5000>>, <<5000>> }
    /\ spheres \in { <<BigSphere>>, <<None, BigSphere>> }
    /\ inc = 0 /\ dec = 0

Init ==
    /\ InitSmall \/ InitScenario
    /\ CallStart
    /\ PickerIdle

----------------------------------------------------------------------------
(* A call of tf or gz, statement by statement *)

\* line 107-108 / 167-168
RaiseShape ==
    /\ pc = "check"
    /\ ShapeCheckRaises(xp, yp, zp)
    /\ pc' = "raised"
    /\ err' = ShapeError
    /\ UNCHANGED <<fn, xp, yp, zp, spheres, inc, dec, i, acc, f, m, out>>

\* line 109-112 / 169: the accumulator and the regional unit vector
Begin ==
    /\ pc = "check"
    /\ ~ShapeCheckRaises(xp, yp, zp)
    /\ acc' = zeros_like(xp)
    /\ f' = IF fn = "tf" THEN dircos(inc, dec) ELSE f
    /\ i' = 1
    /\ pc' = "loop"
    /\ UNCHANGED <<fn, xp, yp, zp, spheres, inc, dec, m, out, err>>

\* line 114-115 / 171-172: continue
Skip ==
    /\ pc = "loop"
    /\ i <= Len(spheres)
    /\ ~Contributes(fn, spheres[i])
    /\ i' = NextAfterSkip(i, Len(spheres))
    /\ UNCHANGED <<fn, xp, yp, zp, spheres, inc, dec, pc, acc, f, m, out, err>>

\* (mutant) the translation of line 131 / 179 done in place: zp -= sphere.z
AccumulateInPlace ==
    /\ pc = "loop"
    /\ i <= Len(spheres)
    /\ Contributes(fn, spheres[i])
    /\ CanBroadcast(xp, yp, zp)
    /\ acc' = Accumulated(acc, Contribution(fn, xp, yp, zp, spheres[i],
                                             inc, dec, f))
    /\ zp' = [k \in 1..Len(zp) |-> zp[k] - spheres[i].z]
    /\ m' = IF fn = "tf" THEN Direction(spheres[i], inc, dec, f) ELSE m
    /\ i' = i + 1
    /\ UNCHANGED <<fn, xp, yp, spheres, inc, dec, pc, f, out, err>>

\* line 116-140 / 173-182: one sphere's contribution
Accumulate ==
    /\ pc = "loop"
    /\ i <= Len(spheres)
    /\ Contributes(fn, spheres[i])
    /\ CanBroadcast(xp, yp, zp)
    /\ acc' = Accumulated(acc, Contribution(fn, xp, yp, zp, spheres[i],
                                             inc, dec, f))
    /\ m' = IF fn = "tf" THEN Direction(spheres[i], inc, dec, f) ELSE m
    /\ i' = i + 1
    /\ UNCHANGED <<fn, xp, yp, zp, spheres, inc, dec, pc, f, out, err>>

\* line 133 / 180: numpy cannot combine the arrays
RaiseBroadcast ==
    /\ pc = "loop"
    /\ i <= Len(spheres)
    /\ Contributes(fn, spheres[i])
    /\ ~CanBroadcast(xp, yp, zp)
    /\ pc' = "raised"
    /\ err' = BroadcastError
    /\ UNCHANGED <<fn, xp, yp, zp, spheres, inc, dec, i, acc, f, m, out>>

\* line 141 / 183
Return ==
    /\ pc = "loop"
    /\ i > Len(spheres)
    /\ out' = Converted(fn, acc)
    /\ pc' = "done"
    /\ UNCHANGED <<fn, xp, yp, zp, spheres, inc, dec, i, acc, f, m, err>>

Next ==
    \/ RaiseShape /\ UNCHANGED pickerVars
    \/ Begin /\ UNCHANGED pickerVars
    \/ Skip /\ UNCHANGED pickerVars
    \/ Accumulate /\ UNCHANGED pickerVars
    \/ RaiseBroadcast /\ UNCHANGED pickerVars
    \/ Return /\ UNCHANGED pickerVars

Spec == Init /\ [][Next]_vars

\* the call has ended
Ended == pc \in {"done", "raised"}

\* the statement-by-statement call and the function agree
CallAgrees ==
    Ended => [err |-> err, out |-> out] = Call(fn, xp, yp, zp, spheres, inc, dec)

----------------------------------------------------------------------------
(* picker.draw_polygon: the state the callbacks share and the callbacks *)

\* event.xdata / event.ydata inside the axes; NoData stands for None
\* (the pointer is outside the axes)
PickCoords == 0..1
NoData == -1

NeedPoints == "Need at least 3 points to make a polygon"
StartTitle == "Click to draw polygon. Right click when done."
DoneTitle == "Done! You can close the window now."
PopError == "IndexError: pop from empty list"
PolygonError == "ValueError: Need at least 3 points to make a polygon"

\* (mutant) list.pop(0): the first element is removed
PopFirst(s) == SubSeq(s, 2, Len(s))

\* the list after list.pop()
Front(s) == SubSeq(s, 1, Len(s) - 1)

SphereIdle ==
    /\ fn = "gz" /\ xp = <<>> /\ yp = <<>> /\ zp = <<>> /\ spheres = <<>>
    /\ inc = 0 /\ dec = 0 /\ pc = "idle" /\ i = 0 /\ acc = <<>> /\ f = <<>>
    /\ m = <<>> /\ out = <<>> /\ err = ""

\* the locals of draw_layers, in a call of another picker
LayersIdle ==
    /\ area = <<>> /\ depths = <<>> /\ values = <<>>
    /\ plotv = <<>> /\ plotz = <<>> /\ tmpz = 0 /\ thickness = <<>>

\* lines 84-103 and 147: the state when pyplot.show() starts the event loop
InitPolygon ==
    /\ SphereIdle
    /\ LayersIdle
    /\ tool = "draw_polygon"
    /\ px = <<>> /\ py = <<>> /\ plotx = <<>> /\ ploty = <<>>
    /\ picking = TRUE
    /\ tmpline = << <<>>, <<>> >>
    /\ title = StartTitle
    /\ xy2ne \in BOOLEAN
    /\ shown = "open"
    /\ verts = <<>> /\ perr = "" /\ cberr = ""

\* line 104-106: draw_guide, the new data of tmpline
draw_guide(xs, ys, gx, gy, old) ==
    IF Len(xs) # 0 THEN << <<xs[Len(xs)], gx>>, <<ys[Len(ys)], gy>> >> ELSE old

\* (mutant) a polygon of two points is accepted
TooFewTwo(xs) == Len(xs) < 2

\* line 124: too few points to close the polygon
TooFew(xs) == Len(xs) < 3

\* (mutant) a left click adds a point whether or not picking is active
AddingClickAlways(button, pk) == button = 1

\* line 116: the click adds a point
AddingClick(button, pk) == button = 1 /\ pk

\* line 123: the click closes the polygon (or complains)
\* event.button == 3 or event.button == 2 and picking[0]
ClosingClick(button, pk) == button = 3 \/ (button = 2 /\ pk)

\* lines 113-134: pick, for a button_press_event
pick(inaxes, button, ex, ey) ==
    /\ shown = "open"
    /\ inaxes => (ex # NoData /\ ey # NoData)
    /\ IF ~inaxes
       THEN UNCHANGED <<px, py, plotx, ploty, picking, tmpline, title>>
       ELSE LET add == AddingClick(button, picking)
                x1 == IF add THEN Append(px, ex) ELSE px
                y1 == IF add THEN Append(py, ey) ELSE py
                plotx1 == IF add THEN Append(plotx, ex) ELSE plotx
                ploty1 == IF add THEN Append(ploty, ey) ELSE ploty
                close == ClosingClick(button, picking)
                done == close /\ ~TooFew(x1)
            IN  /\ add => Len(px) < MaxClicks
                /\ done => Len(plotx1) < MaxClicks + 3
                /\ px' = x1
                /\ py' = y1
                /\ picking' = IF done THEN FALSE ELSE picking
                /\ title' = IF close
                            THEN (IF TooFew(x1) THEN NeedPoints ELSE DoneTitle)
                            ELSE title
                /\ plotx' = IF done THEN Append(plotx1, x1[1]) ELSE plotx1
                /\ ploty' = IF done THEN Append(ploty1, y1[1]) ELSE ploty1
                /\ tmpline' = IF done THEN << <<>>, <<>> >> ELSE tmpline
    /\ cberr' = ""
    /\ UNCHANGED <<xy2ne, shown, verts, perr>>

\* lines 135-143: erase, for a key_press_event
erase(key, ex, ey) ==
    /\ shown = "open"
    /\ IF key = "e" /\ picking
       THEN IF Len(px) = 0
            THEN \* x.pop() raises inside the callback; nothing was changed
                 /\ cberr' = PopError
                 /\ UNCHANGED <<px, py, plotx, ploty, tmpline>>
            ELSE /\ px' = Front(px)
                 /\ py' = Front(py)
                 /\ plotx' = Front(plotx)
                 /\ ploty' = Front(ploty)
                 /\ tmpline' = draw_guide(Front(px), Front(py), ex, ey, tmpline)
                 /\ cberr' = ""
       ELSE /\ cberr' = ""
            /\ UNCHANGED <<px, py, plotx, ploty, tmpline>>
    /\ UNCHANGED <<picking, title, xy2ne, shown, verts, perr>>

\* lines 107-112: move, for a motion_notify_event
move(inaxes, ex, ey) ==
    /\ shown = "open"
    /\ inaxes => (ex # NoData /\ ey # NoData)
    /\ tmpline' = IF inaxes /\ picking THEN draw_guide(px, py, ex, ey, tmpline)
                  ELSE tmpline
    /\ cberr' = ""
    /\ UNCHANGED <<px, py, plotx, ploty, picking, title, xy2ne, shown, verts, perr>>

\* numpy.transpose([a, b])
transpose(a, b) == [k \in 1..Len(a) |-> <<a[k], b[k]>>]

\* lines 147-154: the window is closed, pyplot.show() returns
close_window ==
    /\ shown = "open"
    /\ shown' = "closed"
    /\ IF Len(px) < 3
       THEN perr' = PolygonError /\ verts' = verts
       ELSE /\ perr' = ""
            /\ verts' = IF xy2ne THEN transpose(py, px) ELSE transpose(px, py)
    /\ UNCHANGED <<px, py, plotx, ploty, picking, tmpline, title, xy2ne, cberr>>

EventCoords == PickCoords \cup {NoData}

NextPolygon ==
    \/ \E inaxes \in BOOLEAN, button \in 1..3, ex \in EventCoords, ey \in EventCoords :
          pick(inaxes, button, ex, ey) /\ UNCHANGED <<sphereVars, layerVars>>
    \/ \E key \in {"e", "x"}, ex \in EventCoords, ey \in EventCoords :
          erase(key, ex, ey) /\ UNCHANGED <<sphereVars, layerVars>>
    \/ \E inaxes \in BOOLEAN, ex \in EventCoords, ey \in EventCoords :
          move(inaxes, ex, ey) /\ UNCHANGED <<sphereVars, layerVars>>
    \/ close_window /\ UNCHANGED <<sphereVars, layerVars>>

SpecPolygon == InitPolygon /\ [][NextPolygon]_vars

(***************************************************************************)
(* picker.points (lines 156-237).  The same lists x, y, plotx, ploty and   *)
(* the same flag picking as draw_polygon, without a guide line and without *)
(* a closing click: picking stays True until the window is closed.         *)
(***************************************************************************)

\* line 197
PointsTitle == "Click to pick points. Close window when done."

\* lines 197-209 and 236: the state when pyplot.show() starts the event loop
InitPoints ==
    /\ SphereIdle
    /\ LayersIdle
    /\ tool = "points"
    /\ px = <<>> /\ py = <<>> /\ plotx = <<>> /\ ploty = <<>>
    /\ picking = TRUE
    /\ tmpline = << <<>>, <<>> >>
    /\ title = PointsTitle
    /\ xy2ne = FALSE
    /\ shown = "open"
    /\ verts = <<>>
    /\ perr = ""
    /\ cberr = ""

\* lines 210-225: pick, for a button_press_event
points_pick(inaxes, button, ex, ey) ==
    /\ shown = "open"
    /\ inaxes => (ex # NoData /\ ey # NoData)
    /\ IF inaxes /\ AddingClick(button, picking)
       THEN /\ Len(px) < MaxClicks
            /\ px' = Append(px, ex)
            /\ py' = Append(py, ey)
            /\ plotx' = Append(plotx, ex)
            /\ ploty' = Append(ploty, ey)
       ELSE UNCHANGED <<px, py, plotx, ploty>>
    /\ cberr' = ""
    /\ UNCHANGED <<picking, tmpline, title, xy2ne, shown, verts, perr>>

\* lines 226-233: erase, for a key_press_event
points_erase(key) ==
    /\ shown = "open"
    /\ IF key = "e" /\ picking
       THEN IF Len(px) = 0
            THEN \* x.pop() raises inside the callback; nothing was changed
                 /\ cberr' = PopError
                 /\ UNCHANGED <<px, py, plotx, ploty>>
            ELSE /\ px' = Front(px)
                 /\ py' = Front(py)
                 /\ plotx' = Front(plotx)
                 /\ ploty' = Front(ploty)
                 /\ cberr' = ""
       ELSE /\ cberr' = ""
            /\ UNCHANGED <<px, py, plotx, ploty>>
    /\ UNCHANGED <<picking, tmpline, title, xy2ne, shown, verts, perr>>

\* lines 236-237: the window is closed, numpy.array([x, y]).T is returned
points_close ==
    /\ shown = "open"
    /\ shown' = "closed"
    /\ verts' = transpose(px, py)
    /\ UNCHANGED <<px, py, plotx, ploty, picking, tmpline, title, xy2ne,
                   perr, cberr>>

NextPoints ==
    \/ \E inaxes \in BOOLEAN, button \in 1..3, ex \in EventCoords, ey \in EventCoords :
          points_pick(inaxes, button, ex, ey) /\ UNCHANGED <<sphereVars, layerVars>>
    \/ \E key \in {"e", "x"} :
          points_erase(key) /\ UNCHANGED <<sphereVars, layerVars>>
    \/ points_close /\ UNCHANGED <<sphereVars, layerVars>>

(***************************************************************************)
(* picker.draw_layers (lines 239-356).  depths starts as [zmin]; a left    *)
(* click below the last interface appends a layer, 'e' removes the last    *)
(* layer; the thicknesses are computed when the window is closed.          *)
(***************************************************************************)

\* line 289
LayersTitle == "Click to set a layer. Close the window when done."

\* the areas [vmin, vmax, zmin, zmax] the function is called with
Areas == { <<0, vmax, zmin, MaxClicks - 1>> : vmax \in 1..2, zmin \in 0..1 }

\* the depths an event can carry
LayerDepths == 0..(MaxClicks - 1)

\* line 297: midv = 0.5*(vmax + vmin), a float (0.5 for vmin = 0, vmax = 1)
midv(a) == Mul(Norm(1, 2, 0, 0), Num(a[2] + a[1]))

\* (mutant) a click at the depth of the last interface is accepted too
DeeperOrEqual(z, last) == z >= last

\* line 330: the click is below the last interface
Deeper(z, last) == z > last

\* lines 291-310 and 354: the state when pyplot.show() starts the event loop
InitLayers ==
    /\ SphereIdle
    /\ tool = "draw_layers"
    /\ area \in Areas
    /\ depths = <<area[3]>>
    /\ values = <<>>
    /\ plotv = <<>> /\ plotz = <<>>
    /\ tmpz = area[3]
    /\ thickness = <<>>
    /\ picking = TRUE
    /\ tmpline = << <<midv(area)>>, <<area[3]>> >>
    /\ title = LayersTitle
    /\ px = <<>> /\ py = <<>> /\ plotx = <<>> /\ ploty = <<>>
    /\ xy2ne = FALSE
    /\ shown = "open"
    /\ verts = <<>>
    /\ perr = ""
    /\ cberr = ""

\* lines 311-318: draw_guide(v, z), on the values and tmpz it is called with
layers_draw_guide(vals, tz, v, z) ==
    IF Len(vals) = 0
    THEN << <<v, v>>, <<tz, z>> >>
    ELSE IF Deeper(z, tz)
         THEN << <<vals[Len(vals)], v, v>>, <<tz, tz, z>> >>
         ELSE << <<vals[Len(vals)], v>>, <<tz, tz>> >>

\* lines 319-325: move, for a motion_notify_event
layers_move(inaxes, v, z) ==
    /\ shown = "open"
    /\ inaxes => (v # NoData /\ z # NoData)
    /\ tmpline' = IF inaxes /\ picking THEN layers_draw_guide(values, tmpz, v, z)
                  ELSE tmpline
    /\ cberr' = ""
    /\ UNCHANGED <<depths, values, plotv, plotz, tmpz, picking, shown, thickness>>

\* lines 326-338: pick, for a button_press_event
layers_pick(inaxes, button, v, z) ==
    /\ shown = "open"
    /\ inaxes => (v # NoData /\ z # NoData)
    /\ IF inaxes /\ AddingClick(button, picking) /\ Deeper(z, tmpz)
       THEN /\ Len(values) < MaxClicks
            /\ depths' = Append(depths, z)
            /\ values' = Append(values, v)
            /\ plotz' = plotz \o <<tmpz, z>>
            /\ plotv' = plotv \o <<v, v>>
            /\ tmpz' = z
       ELSE UNCHANGED <<depths, values, plotv, plotz, tmpz>>
    /\ cberr' = ""
    /\ UNCHANGED <<picking, tmpline, shown, thickness>>

\* lines 339-350: erase, for a key_press_event
layers_erase(key, v, z) ==
    /\ shown = "open"
    /\ IF picking /\ Len(values) > 0 /\ key = "e"
       THEN /\ depths' = Front(depths)
            /\ values' = Front(values)
            /\ tmpz' = Front(depths)[Len(depths) - 1]
            /\ plotv' = Front(Front(plotv))
            /\ plotz' = Front(Front(plotz))
            /\ tmpline' = layers_draw_guide(Front(values),
                                            Front(depths)[Len(depths) - 1], v, z)
       ELSE UNCHANGED <<depths, values, plotv, plotz, tmpz, tmpline>>
    /\ cberr' = ""
    /\ UNCHANGED <<picking, shown, thickness>>

\* line 355: the differences of consecutive depths
Thickness(d) == [k \in 1..(Len(d) - 1) |-> d[k + 1] - d[k]]

\* lines 354-356: the window is closed, (thickness, values) is returned
layers_close ==
    /\ shown = "open"
    /\ shown' = "closed"
    /\ thickness' = Thickness(depths)
    /\ UNCHANGED <<depths, values, plotv, plotz, tmpz, picking, tmpline, cberr>>

\* what no callback of draw_layers touches
LayersFrame ==
    UNCHANGED <<sphereVars, px, py, plotx, ploty, title, xy2ne, verts, perr,
                tool, area>>

LayerCoords == LayerDepths \cup {NoData}

NextLayers ==
    \/ \E inaxes \in BOOLEAN, button \in 1..3, v \in EventCoords, z \in LayerCoords :
          layers_pick(inaxes, button, v, z) /\ LayersFrame
    \/ \E key \in {"e", "x"}, v \in EventCoords, z \in LayerCoords :
          layers_erase(key, v, z) /\ LayersFrame
    \/ \E inaxes \in BOOLEAN, v \in EventCoords, z \in LayerCoords :
          layers_move(inaxes, v, z) /\ LayersFrame
    \/ layers_close /\ LayersFrame

SpecLayers == InitLayers /\ [][NextLayers]_vars

(***************************************************************************)
(* The three pickers together: one of them is called, and its callbacks    *)
(* run until its window is closed.                                         *)
(***************************************************************************)

InitPickers == InitPolygon \/ InitPoints \/ InitLayers

NextPickers ==
    \/ tool = "draw_polygon" /\ NextPolygon
    \/ tool = "points" /\ NextPoints
    \/ tool = "draw_layers" /\ NextLayers

SpecPickers == InitPickers /\ [][NextPickers]_vars

----------------------------------------------------------------------------
(* Properties of tf and gz *)

\* the three arrays have the identical shape
SameShapes == Shape(xp) = Shape(yp) /\ Shape(yp) = Shape(zp)

\* the entries a reader of the documentation expects to count: spheres
\* that carry the required property
Counts(fnn, s) == s.kind = "Sphere" /\ Required(fnn) \in DOMAIN s.props
Kept(fnn, sph) == SelectSeq(sph, LAMBDA s : Counts(fnn, s))

\* observation point k after broadcasting, and whether it is the centre of s
PointIs(k, s) == At(xp, k) = s.x /\ At(yp, k) = s.y /\ At(zp, k) = s.z
Coincides(k) ==
    \E j \in 1..Len(spheres) : Counts(fn, spheres[j]) /\ PointIs(k, spheres[j])

\* C1: whenever xp, yp, zp do not all have the identical shape, the call
\* raises the shape-mismatch error before any numeric work and returns no
\* output, for every source list.
C1_MismatchAlwaysRaises ==
    ~SameShapes =>
        /\ pc \in {"check", "raised"}
        /\ pc = "raised" => err = ShapeError
        /\ out = <<>>

\* C2: the result for a list with None entries and spheres lacking the
\* required property is the result for the list with those entries removed
\* (the same output, and no error on their account).
C2_SkippedEntriesAreRemovable ==
    Ended => [err |-> err, out |-> out]
               = Call(fn, xp, yp, zp, Kept(fn, spheres), inc, dec)

C2_Witness ==
    /\ pc = "done"
    /\ Len(spheres) = 2
    /\ IsNone(spheres[1])
    /\ Len(Kept(fn, spheres)) = 1
    /\ \E k \in 1..Len(out) : IsFinite(out[k]) /\ ~IsZero(out[k])

\* C3: in tf the magnetization direction of a sphere is its own
\* inclination/declination exactly when both keys are present, else the
\* regional direction; the projection always uses the regional direction.
OwnDirection(s) ==
    "inclination" \in DOMAIN s.props /\ "declination" \in DOMAIN s.props
ExpectedDirection(s) ==
    IF OwnDirection(s) THEN dircos(s.props.inclination, s.props.declination)
    ELSE dircos(inc, dec)
ProjectedOnRegional(b) ==
    LET fv == dircos(inc, dec)
    IN  [k \in 1..Len(b[1]) |->
            Add(Add(Mul(fv[1], b[1][k]), Mul(fv[2], b[2][k])), Mul(fv[3], b[3][k]))]
C3_DirectionRule ==
    [][ (fn = "tf" /\ pc = "loop" /\ pc' = "loop" /\ acc' # acc) =>
            /\ m' = ExpectedDirection(spheres[i])
            /\ acc' = Map2(Add, acc,
                           ProjectedOnRegional(
                               TfField(xp, yp, zp, spheres[i],
                                       ExpectedDirection(spheres[i])))) ]_vars

ExactlyOneKey(s) ==
    /\ s.kind = "Sphere"
    /\ ("inclination" \in DOMAIN s.props) # ("declination" \in DOMAIN s.props)
C3_Witness ==
    /\ fn = "tf" /\ pc = "done"
    /\ Len(spheres) = 2
    /\ ExactlyOneKey(spheres[1]) /\ Counts("tf", spheres[1])
    /\ spheres[2].kind = "Sphere" /\ Counts("tf", spheres[2])
    /\ OwnDirection(spheres[2])
    /\ m # f
    /\ \A k \in 1..Len(out) : IsFinite(out[k]) /\ ~IsZero(out[k])

\* C4: one sphere at the origin, radius 1000, density 1000, observed at
\* (0, 0, -5000): gz = G*mass*5000/5000^3 in mGal, mass = 1000*(4/3)*pi*1000^3,
\* a positive value.
ScenarioMass == Mul(Num(1000), Div(Mul(Mul(Num(4), pi), Cube(Num(1000))), Num(3)))
ScenarioValue ==
    Mul(Mul(G, SI2MGAL), Div(Mul(ScenarioMass, Num(5000)), Cube(Num(5000))))
C4_ScenarioAbove ==
    ( /\ fn = "gz" /\ pc = "done"
      /\ spheres = <<BigSphere>>
      /\ xp = <<0>> /\ yp = <<0>> /\ zp = <<-5000>> )
    => out = <<ScenarioValue>>

\* C5: one sphere of density rho and radius r, a point with x-offset =
\* y-offset = 0 and z-offset d > 0 (zp - sphere.z = d):
\* gz = G*(4/3)*pi*r^3*rho/d^2 in mGal.
OnAxisValue(r, rho, d) ==
    Mul(SI2MGAL,
        Div(Mul(Mul(Mul(Mul(G, Div(Num(4), Num(3))), pi), Cube(Num(r))), Num(rho)),
            Sqr(Num(d))))
C5_OnAxisBelow ==
    ( /\ fn = "gz" /\ pc = "done"
      /\ Len(spheres) = 1 /\ Counts("gz", spheres[1]) )
    => \A k \in 1..Len(out) :
          ( /\ At(xp, k) = spheres[1].x
            /\ At(yp, k) = spheres[1].y
            /\ At(zp, k) - spheres[1].z > 0 )
          => out[k] = OnAxisValue(spheres[1].radius, spheres[1].props.density,
                                  At(zp, k) - spheres[1].z)

C5_Witness ==
    /\ fn = "gz" /\ pc = "done"
    /\ spheres = <<BigSphere>>
    /\ zp = <<5000>>
    /\ out[1].n > 0 /\ IsFinite(out[1])

\* C6: superposition: the output for a list of N sources is the
\* elementwise sum of the N outputs of the one-element lists.
ZeroArray(n) == [k \in 1..n |-> Zero]
Single(j) == Call(fn, xp, yp, zp, <<spheres[j]>>, inc, dec)
RECURSIVE SumOfSingles(_)
SumOfSingles(j) ==
    IF j = 0 THEN ZeroArray(Len(xp))
    ELSE Map2(Add, SumOfSingles(j - 1), Single(j).out)
C6_Superposition ==
    pc = "done" =>
        /\ \A j \in 1..Len(spheres) : Single(j).err = ""
        /\ out = SumOfSingles(Len(spheres))

C6_Witness ==
    /\ pc = "done"
    /\ Len(spheres) = 2
    /\ Counts(fn, spheres[1]) /\ Counts(fn, spheres[2])
    /\ \E k \in 1..Len(out) :
          /\ IsFinite(out[k])
          /\ ~IsZero(Single(1).out[k]) /\ ~IsZero(Single(2).out[k])
          /\ out[k] # Single(1).out[k] /\ out[k] # Single(2).out[k]

\* C7: order-independence: every permutation of the source list gives the
\* same result (exact arithmetic; rounding is not modelled).
Perms(n) == { q \in [1..n -> 1..n] : \A a, b \in 1..n : q[a] = q[b] => a = b }
Permuted(sph, q) == [k \in 1..Len(sph) |-> sph[q[k]]]
C7_OrderIndependent ==
    Ended => \A q \in Perms(Len(spheres)) :
                Call(fn, xp, yp, zp, Permuted(spheres, q), inc, dec)
                  = [err |-> err, out |-> out]

C7_Witness ==
    /\ pc = "done"
    /\ Len(spheres) = 2
    /\ spheres[1] # spheres[2]
    /\ Counts(fn, spheres[1]) /\ Counts(fn, spheres[2])
    /\ \E k \in 1..Len(out) : IsFinite(out[k]) /\ ~IsZero(out[k])

\* C8: a point that coincides with the centre of a contributing source
\* raises no error; the returned array has the observation shape, is
\* non-finite at exactly the coinciding positions, and holds at every other
\* position the finite value computed for that point alone.
Alone(k) == Call(fn, <<At(xp, k)>>, <<At(yp, k)>>, <<At(zp, k)>>, spheres, inc, dec)
C8_DegenerateGeometry ==
    /\ (pc = "raised" => ~SameShapes)
    /\ pc = "done" =>
          /\ SameShapes => Len(out) = Len(xp)
          /\ CanBroadcast(xp, yp, zp) =>
                \A k \in 1..Len(out) :
                    /\ Coincides(k) <=> ~IsFinite(out[k])
                    /\ ~Coincides(k) => out[k] = Alone(k).out[1]

C8_Witness ==
    /\ pc = "done"
    /\ SameShapes
    /\ \E k \in 1..Len(out) : Coincides(k) /\ IsNaN(out[k])
    /\ \E k \in 1..Len(out) : ~Coincides(k) /\ IsFinite(out[k]) /\ ~IsZero(out[k])

\* C9: a call leaves xp, yp, zp, the source list and the sources unchanged;
\* the accumulator starts at zero and changes only by the addition of a
\* source's contribution.
C9_InputsUnchanged ==
    [][ /\ xp' = xp /\ yp' = yp /\ zp' = zp
        /\ spheres' = spheres /\ inc' = inc /\ dec' = dec /\ fn' = fn
        /\ acc' # acc =>
              \/ pc = "check" /\ acc' = ZeroArray(Len(xp))
              \/ /\ pc = "loop" /\ i <= Len(spheres) /\ Counts(fn, spheres[i])
                 /\ acc' = Map2(Add, acc,
                                Contribution(fn, xp, yp, zp, spheres[i],
                                             inc, dec, dircos(inc, dec))) ]_vars

C9_Witness ==
    /\ pc = "done"
    /\ Len(Kept(fn, spheres)) = 2
    /\ spheres[1].kind = "Sphere" /\ spheres[1].z # 0
    /\ acc # ZeroArray(Len(acc))

----------------------------------------------------------------------------
(* Properties of draw_polygon *)

\* C10: draw_polygon never returns fewer than 3 vertices: a right click
\* with fewer than 3 points picked leaves picking active, and closing the
\* window with fewer than 3 points raises ValueError instead of returning.
C10_AtLeastThreeVertices ==
    /\ (shown # "no" /\ Len(px) < 3) => picking
    /\ shown = "closed" =>
          IF Len(px) < 3 THEN perr = PolygonError /\ verts = <<>>
          ELSE perr = "" /\ Len(verts) = Len(px) /\ Len(verts) >= 3

C10_Witness ==
    /\ shown = "closed"
    /\ Len(px) = 2
    /\ title = NeedPoints
    /\ picking
    /\ perr = PolygonError

\* the list without its last element, position by position
AllButLast(s) == [k \in 1..(Len(s) - 1) |-> s[k]]

\* the points as (x, y) pairs, in click order
ClickPairs(a, b) == [k \in 1..Len(a) |-> <<a[k], b[k]>>]

\* the step is a press of 'e' in draw_polygon or in points
ErasePressed ==
    \/ tool = "draw_polygon" /\ \E ex \in EventCoords, ey \in EventCoords :
                                    erase("e", ex, ey)
    \/ tool = "points" /\ points_erase("e")

\* C11: in draw_polygon and in points, while picking is active and at least
\* one point is picked, a press of 'e' removes exactly the last point from
\* x, y, plotx and ploty and keeps the earlier ones in order; x and y only
\* ever grow by one click at the end or lose their last point, and the
\* returned points are the pairs of x and y when the window is closed.
C11_EraseRemovesLastPoint ==
    [][ (tool \in {"draw_polygon", "points"}) =>
          /\ (picking /\ Len(px) >= 1 /\ ErasePressed) =>
                 /\ px' = AllButLast(px)
                 /\ py' = AllButLast(py)
                 /\ plotx' = AllButLast(plotx)
                 /\ ploty' = AllButLast(ploty)
          /\ (Len(px') > Len(px)) =>
                 \E ex \in PickCoords, ey \in PickCoords :
                     px' = Append(px, ex) /\ py' = Append(py, ey)
          /\ (Len(px') < Len(px)) =>
                 px' = AllButLast(px) /\ py' = AllButLast(py)
          /\ (Len(px') = Len(px)) => (px' = px /\ py' = py)
          /\ (shown = "open" /\ shown' = "closed" /\ perr' = "") =>
                 verts' = IF xy2ne THEN ClickPairs(py, px) ELSE ClickPairs(px, py)
      ]_vars

\* the third point of a polygon was erased with the pointer outside the
\* axes: the first two are left, in order, and the guide starts at the second
C11_Witness ==
    /\ tool = "draw_polygon"
    /\ picking
    /\ px = <<0, 1>> /\ py = <<1, 1>>
    /\ plotx = px /\ ploty = py
    /\ tmpline = << <<1, NoData>>, <<1, NoData>> >>

\* every element is smaller than its successor
StrictlyIncreasing(d) == \A k \in 1..(Len(d) - 1) : d[k] < d[k + 1]

\* C12: in draw_layers, after any clicks and 'e' presses, depths is strictly
\* increasing and starts at zmin, len(depths) = len(values) + 1, tmpz[0] is
\* the last depth and len(plotv) = len(plotz) = 2*len(values); the returned
\* thickness has one strictly positive entry per value.
C12_LayersConsistent ==
    (tool = "draw_layers") =>
        /\ depths[1] = area[3]
        /\ StrictlyIncreasing(depths)
        /\ Len(depths) = Len(values) + 1
        /\ tmpz = depths[Len(depths)]
        /\ Len(plotv) = 2 * Len(values)
        /\ Len(plotz) = 2 * Len(values)
        /\ (shown = "closed") =>
               /\ Len(thickness) = Len(values)
               /\ \A k \in 1..Len(thickness) : thickness[k] > 0
               /\ \A k \in 1..Len(thickness) :
                      depths[1] + thickness[k] <= depths[Len(depths)]

\* two layers were returned after a layer had been erased with the pointer
\* outside the axes and another one picked
C12_Witness ==
    /\ tool = "draw_layers"
    /\ shown = "closed"
    /\ depths = <<0, 1, 3>>
    /\ Len(values) = 2
    /\ thickness = <<1, 2>>
    /\ Len(tmpline[1]) = 2
    /\ tmpline[1][2] = NoData

\* C13: in draw_polygon the plotted outline mirrors the picked points: while
\* picking is active plotx = x and ploty = y, and once the polygon is closed
\* plotx is x followed by x[0] exactly once (ploty likewise), whatever
\* arrives after the closing click.  (Refuted: a right click after the
\* closing click appends x[0] and y[0] again.)
C13_OutlineMirrorsPoints ==
    (tool = "draw_polygon") =>
        /\ picking => (plotx = px /\ ploty = py)
        /\ ~picking => /\ plotx = Append(px, px[1])
                       /\ ploty = Append(py, py[1])

\* C14: in draw_polygon picking is cleared only by a click that leaves at
\* least 3 points in x and y; once it is cleared it stays cleared and no
\* later event changes x or y, so the vertices returned when the window is
\* closed are the points picked up to the closing click.
C14_ClosedPolygonIsFinal ==
    [][ (tool = "draw_polygon") =>
          /\ (picking /\ ~picking') =>
                 (Len(px) >= 3 /\ px' = px /\ py' = py)
          /\ ~picking => (~picking' /\ px' = px /\ py' = py)
          /\ (~picking /\ shown = "open" /\ shown' = "closed") =>
                 /\ perr' = ""
                 /\ verts' = IF xy2ne THEN [k \in 1..Len(px) |-> <<py[k], px[k]>>]
                                      ELSE [k \in 1..Len(px) |-> <<px[k], py[k]>>]
      ]_vars

\* a triangle was closed, a further right click arrived (the outline got a
\* second closing point), and the window was closed: the three picked points
\* are returned
C14_Witness ==
    /\ tool = "draw_polygon"
    /\ ~picking
    /\ shown = "closed"
    /\ ~xy2ne
    /\ px = <<0, 1, 1>> /\ py = <<0, 0, 1>>
    /\ Len(plotx) = Len(px) + 2
    /\ verts = << <<0, 0>>, <<1, 0>>, <<1, 1>> >>

\* the step is a press of 'e' while nothing is picked, in any of the pickers
ErasePressedOnEmpty ==
    \/ /\ tool = "draw_polygon" /\ Len(px) = 0
       /\ \E ex \in EventCoords, ey \in EventCoords : erase("e", ex, ey)
    \/ /\ tool = "points" /\ Len(px) = 0
       /\ points_erase("e")
    \/ /\ tool = "draw_layers" /\ Len(values) = 0
       /\ \E v \in EventCoords, z \in LayerCoords : layers_erase("e", v, z)

\* C15: in draw_polygon, points and draw_layers a press of 'e' while nothing
\* is picked raises no error and changes nothing of the picker's state.
\* (Refuted: draw_polygon.erase and points.erase pop from the empty list.)
C15_EraseOnEmptyIsNoOp ==
    [][ ErasePressedOnEmpty =>
          /\ cberr' = ""
          /\ UNCHANGED <<px, py, plotx, ploty, picking, tmpline, title,
                         depths, values, plotv, plotz, tmpz>>
      ]_vars

====
